---- MODULE Spec2Model ----
(***************************************************************************)
(* Model of src/scraper.py: SiteCrawler (scope policy and crawl loop) and  *)
(* the Database sink it writes to.                                         *)
(*                                                                         *)
(* A URL is a record [scheme, netloc, path, frag]; netloc is a sequence of *)
(* characters so that str.endswith can be computed on it.  An optional     *)
(* Python value is <<>> (None) or <<v>>.                                   *)
(***************************************************************************)
EXTENDS Integers, Sequences, FiniteSets, Bags, TLC

VARIABLES
    base_url,            \* self.base_url (after rstrip("/"))
    max_pages,           \* self.max_pages
    delay,               \* self.delay
    include_subdomains,  \* self.include_subdomains
    robot_parser,        \* self.robot_parser: None or a RobotFileParser
    queue,               \* crawl(): queue
    visited,             \* crawl(): visited
    pc,                  \* position of crawl()
    url,                 \* crawl(): url
    status_code,         \* response.status_code
    content_type,        \* crawl(): content_type
    title,               \* crawl(): title
    text_content,        \* crawl(): text_content
    links_to_store,      \* crawl(): links_to_store
    pages,               \* table pages: url -> row
    links,               \* table links: bag of <<from_url, to_url>> rows
    log,                 \* calls made to session.get, the Database and time.sleep
    enqueued             \* the URLs put on the queue so far, in the order of their first enqueue

config == <<base_url, max_pages, delay, include_subdomains, robot_parser>>
locals == <<url, status_code, content_type, title, text_content, links_to_store>>
db     == <<pages, links>>
vars   == <<config, queue, visited, pc, locals, db, log, enqueued>>

----------------------------------------------------------------------------
(* Bounds of the model *)

MaxBudget == 3      \* max_pages ranges over 0..MaxBudget
MaxLinks  == 2      \* a page holds at most MaxLinks anchors

----------------------------------------------------------------------------
(* Python values *)

None == <<>>
Some(v) == <<v>>

ExCom   == <<"e", "x", ".", "c", "o">>
NotEx   == <<"n", "o", "t", "e", "x", ".", "c", "o">>
Other   == <<"o", ".", "o", "r", "g">>
NoHost  == <<>>

Url(s, h, p, f) == [scheme |-> s, netloc |-> h, path |-> p, frag |-> f]

\* the value of a URL variable that is not bound yet
NoUrl == Url("", NoHost, "", "")

\* hrefs a page can carry (scheme "" = relative reference)
HrefA       == Url("", NoHost, "/a", "")
HrefPrivate == Url("", NoHost, "/private", "")
HrefTop     == Url("", NoHost, "", "top")
HrefNotEx   == Url("https", NotEx, "/", "")
HrefOther   == Url("https", Other, "/x", "")
Hrefs == {HrefA, HrefPrivate, HrefTop, HrefNotEx, HrefOther}

BaseUrls == {Url("https", ExCom, "", ""), Url("ftp", ExCom, "", "")}

\* urllib.parse.urldefrag(u).url
urldefrag(u) == [u EXCEPT !.frag = ""]

\* urllib.parse.urljoin(b, href)
urljoin(b, href) ==
    IF href.scheme # "" THEN href
    ELSE IF href.path = "" THEN [b EXCEPT !.frag = href.frag]
    ELSE Url(b.scheme, b.netloc, href.path, href.frag)

\* str.endswith
EndsWith(s, suffix) ==
    /\ Len(s) >= Len(suffix)
    /\ SubSeq(s, Len(s) - Len(suffix) + 1, Len(s)) = suffix

----------------------------------------------------------------------------
(* Responses of the fetch client *)

\* what a server can answer: status, Content-Type header split at ";"
\* (None when the header is missing) and the <title> of the body
PageKinds == {
    [status |-> 200, header |-> Some(<<"text/html", "charset=utf-8">>), title |-> Some("t")],
    [status |-> 200, header |-> Some(<<"text/plain">>), title |-> Some("t")],
    [status |-> 404, header |-> None, title |-> None] }

\* the anchors of a body, in document order
Anchors == UNION {[1..n -> Hrefs] : n \in 0..MaxLinks}

\* response.headers.get("Content-Type", "").split(";")[0]
ContentTypeOf(header) == IF header = None THEN "" ELSE Head(header[1])

\* slip: "text/" in content_type
IsHtmlAnyText(ct) == ct \in {"text/html", "text/plain"}

\* "text/html" in content_type
IsHtml(ct) == ct \in {"text/html"}

----------------------------------------------------------------------------
(* SiteCrawler.__init__: the robots parser *)

\* None when respect_robots is off; otherwise a RobotFileParser, which was
\* fed the robots file (last_checked set by parse) only if the request
\* succeeded with an OK response
RobotParsers == {
    None,
    Some([last_checked |-> FALSE, disallow |-> {}]),
    Some([last_checked |-> TRUE, disallow |-> {"/private"}]) }

\* RobotFileParser.can_fetch: nothing is allowed until a file was parsed
can_fetch(rp, u) == rp.last_checked /\ u.path \notin rp.disallow

----------------------------------------------------------------------------
(* SiteCrawler.allowed_url *)

SchemeAllowed(u) == u.scheme \in {"http", "https"} /\ u.netloc # NoHost

\* slip: the suffix test whatever include_subdomains says
HostAllowedSuffixOnly(u) == EndsWith(u.netloc, base_url.netloc)

HostAllowed(u) ==
    IF include_subdomains
    THEN EndsWith(u.netloc, base_url.netloc)
    ELSE u.netloc = base_url.netloc

RobotsAllowed(u) == ~(robot_parser # None /\ ~can_fetch(robot_parser[1], u))

allowed_url(u) == SchemeAllowed(u) /\ HostAllowed(u) /\ RobotsAllowed(u)

----------------------------------------------------------------------------
(* Database *)

Row(s, c, t, x) == [status_code |-> s, content_type |-> c, title |-> t, text_content |-> x]

SeedUrl  == Url("https", ExCom, "", "")
PageA    == Url("https", ExCom, "/a", "")
PagePriv == Url("https", ExCom, "/private", "")
PageNot  == Url("https", NotEx, "/", "")

\* the database file is new, or holds the rows of an earlier crawl
PriorRow == Row(Some(200), Some("text/html"), None, Some("text"))
PriorDbs == {
    [pages |-> <<>>, links |-> EmptyBag],
    [pages |-> [u \in {SeedUrl, PageA, PagePriv, PageNot} |-> PriorRow],
     links |-> SetToBag({<<SeedUrl, PageA>>})] }

\* INSERT ... ON CONFLICT(url) DO UPDATE
Upserted(u, row) == [v \in DOMAIN pages \cup {u} |-> IF v = u THEN row ELSE pages[v]]

\* FOREIGN KEY(from_url), FOREIGN KEY(to_url) REFERENCES pages(url)
ForeignKeysHold(from, tos) == from \in DOMAIN pages /\ tos \subseteq DOMAIN pages

\* Database.upsert_page: the row is written, or the statement raises
upsert_page(u, s, c, t, x, whenDone) ==
    /\ log' = Append(log, [op |-> "upsert_page", url |-> u, row |-> Row(s, c, t, x)])
    /\ UNCHANGED links
    /\ \E ok \in BOOLEAN :
         IF ok THEN pages' = Upserted(u, Row(s, c, t, x)) /\ pc' = whenDone
               ELSE UNCHANGED pages /\ pc' = "raised"

\* Database.insert_links: all rows are written, or the statement raises
insert_links(from, tos, whenDone) ==
    /\ log' = Append(log, [op |-> "insert_links", from_url |-> from, to_urls |-> tos])
    /\ UNCHANGED pages
    /\ \E ok \in BOOLEAN :
         IF ok /\ ForeignKeysHold(from, tos)
         THEN links' = links (+) SetToBag({<<from, t>> : t \in tos}) /\ pc' = whenDone
         ELSE UNCHANGED links /\ pc' = "raised"

----------------------------------------------------------------------------
(* SiteCrawler.crawl *)

Init ==
    /\ base_url \in BaseUrls
    /\ max_pages \in 0..MaxBudget
    /\ delay \in {0, 1}
    /\ include_subdomains \in BOOLEAN
    /\ robot_parser \in RobotParsers
    /\ queue = <<base_url>>
    /\ visited = {}
    /\ pc = "loop"
    /\ url = NoUrl /\ status_code = None /\ content_type = None
    /\ title = None /\ text_content = None /\ links_to_store = {}
    /\ \E d \in PriorDbs : pages = d.pages /\ links = d.links
    /\ log = <<>>
    /\ enqueued = <<base_url>>

\* slip: <= for <
LoopConditionOffByOne == queue # <<>> /\ Cardinality(visited) <= max_pages

\* while queue and len(visited) < self.max_pages
LoopCondition == queue # <<>> /\ Cardinality(visited) < max_pages

\* slip: queue.pop(), which takes the newest entry
pop(q) == [item |-> q[Len(q)], rest |-> SubSeq(q, 1, Len(q) - 1)]

\* queue.popleft(): the oldest entry and what is left
popleft(q) == [item |-> Head(q), rest |-> Tail(q)]

\* slip: the visited test left out
AlreadyVisitedNever(u) == FALSE

\* if url in visited: continue
AlreadyVisited(u) == u \in visited

\* the loop is left
LoopExit ==
    /\ pc = "loop"
    /\ ~LoopCondition
    /\ pc' = "done"
    /\ UNCHANGED <<config, queue, visited, locals, db, log, enqueued>>

\* slip: an ineligible URL is handled like a failed fetch
DequeueRecordsDiscard ==
    /\ pc = "loop"
    /\ LoopCondition
    /\ LET u == urldefrag(popleft(queue).item) IN
         /\ queue' = popleft(queue).rest
         /\ url' = u
         /\ IF AlreadyVisited(u)
            THEN pc' = "loop" /\ UNCHANGED visited
            ELSE IF ~allowed_url(u)
            THEN pc' = "failed" /\ UNCHANGED visited
            ELSE pc' = "get" /\ visited' = visited \cup {u}
    /\ UNCHANGED <<config, status_code, content_type, title, text_content,
                   links_to_store, db, log, enqueued>>

\* slip: visited.add(url) before the allowed_url test
DequeueVisitFirst ==
    /\ pc = "loop"
    /\ LoopCondition
    /\ LET u == urldefrag(popleft(queue).item) IN
         /\ queue' = popleft(queue).rest
         /\ url' = u
         /\ visited' = visited \cup {u}
         /\ pc' = IF AlreadyVisited(u) \/ ~allowed_url(u) THEN "loop" ELSE "get"
    /\ UNCHANGED <<config, status_code, content_type, title, text_content,
                   links_to_store, db, log, enqueued>>

\* slip: visited.add(url) left out
DequeueNoMark ==
    /\ pc = "loop"
    /\ LoopCondition
    /\ LET u == urldefrag(popleft(queue).item) IN
         /\ queue' = popleft(queue).rest
         /\ url' = u
         /\ pc' = IF AlreadyVisited(u) \/ ~allowed_url(u) THEN "loop" ELSE "get"
    /\ UNCHANGED <<config, visited, status_code, content_type, title, text_content,
                   links_to_store, db, log, enqueued>>

\* pop the head, strip its fragment, skip it or mark it visited
Dequeue ==
    /\ pc = "loop"
    /\ LoopCondition
    /\ LET u == urldefrag(popleft(queue).item) IN
         /\ queue' = popleft(queue).rest
         /\ url' = u
         /\ IF AlreadyVisited(u) \/ ~allowed_url(u)
            THEN pc' = "loop" /\ UNCHANGED visited
            ELSE pc' = "get" /\ visited' = visited \cup {u}
    /\ UNCHANGED <<config, status_code, content_type, title, text_content,
                   links_to_store, db, log, enqueued>>

\* session.get raises requests.RequestException
FetchFail ==
    /\ pc = "get"
    /\ log' = Append(log, [op |-> "get", url |-> url])
    /\ pc' = "failed"
    /\ UNCHANGED <<config, queue, visited, locals, db, enqueued>>

\* urldefrag(urljoin(url, link["href"])) for each anchor
NextUrls(anchors) == [i \in DOMAIN anchors |-> urldefrag(urljoin(url, anchors[i]))]

\* slip: the allowed_url test left out
DiscoveredUnscoped(u) == u \notin visited

\* slip: the visited test left out
DiscoveredAllowedOnly(u) == allowed_url(u)

\* if self.allowed_url(next_url) and next_url not in visited
Discovered(u) == allowed_url(u) /\ u \notin visited

\* the links a page contributes: those of an HTML page that pass the test
Extracted(ct, anchors) ==
    IF IsHtml(ct) THEN SelectSeq(NextUrls(anchors), Discovered) ELSE <<>>

\* the enqueue history after appending found: a URL keeps its first place
RECURSIVE FirstEnqueues(_, _)
FirstEnqueues(seen, found) ==
    IF found = <<>> THEN seen
    ELSE FirstEnqueues(
             IF \E i \in DOMAIN seen : seen[i] = Head(found)
             THEN seen ELSE Append(seen, Head(found)),
             Tail(found))

\* session.get returns; the body is examined
FetchOk ==
    /\ pc = "get"
    /\ log' = Append(log, [op |-> "get", url |-> url])
    /\ \E kind \in PageKinds, anchors \in Anchors :
         LET ct == ContentTypeOf(kind.header)
             found == Extracted(ct, anchors)
         IN  /\ status_code' = Some(kind.status)
             /\ content_type' = Some(ct)
             /\ title' = IF IsHtml(ct) THEN kind.title ELSE None
             /\ text_content' = IF IsHtml(ct) THEN Some("text") ELSE None
             /\ queue' = queue \o found
             /\ enqueued' = FirstEnqueues(enqueued, found)
             /\ links_to_store' = {found[i] : i \in DOMAIN found}
    /\ pc' = "upsert"
    /\ UNCHANGED <<config, visited, url, db>>

\* slip: the except branch only logs and continues
RecordFailureSilent ==
    /\ pc = "failed"
    /\ pc' = "loop"
    /\ UNCHANGED <<config, queue, visited, locals, db, log, enqueued>>

\* except branch: self.db.upsert_page(url, None, None, None, None); continue
RecordFailure ==
    /\ pc = "failed"
    /\ upsert_page(url, None, None, None, None, "loop")
    /\ UNCHANGED <<config, queue, visited, locals, enqueued>>

\* slip: insert_links is called whatever links_to_store holds
RecordPageAlwaysLinks ==
    /\ pc = "upsert"
    /\ upsert_page(url, status_code, content_type, title, text_content, "insert_links")
    /\ UNCHANGED <<config, queue, visited, locals, enqueued>>

\* self.db.upsert_page(url, response.status_code, content_type, title, text_content)
RecordPage ==
    /\ pc = "upsert"
    /\ upsert_page(url, status_code, content_type, title, text_content,
                   IF links_to_store # {} THEN "insert_links" ELSE "pace")
    /\ UNCHANGED <<config, queue, visited, locals, enqueued>>

\* if links_to_store: self.db.insert_links(url, links_to_store)
RecordLinks ==
    /\ pc = "insert_links"
    /\ insert_links(url, links_to_store, "pace")
    /\ UNCHANGED <<config, queue, visited, locals, enqueued>>

\* if queue and self.delay: time.sleep(self.delay)
Pace ==
    /\ pc = "pace"
    /\ log' = IF queue # <<>> /\ delay # 0 THEN Append(log, [op |-> "sleep"]) ELSE log
    /\ pc' = "loop"
    /\ UNCHANGED <<config, queue, visited, locals, db, enqueued>>

Next ==
    \/ LoopExit
    \/ Dequeue
    \/ FetchFail
    \/ FetchOk
    \/ RecordFailure
    \/ RecordPage
    \/ RecordLinks
    \/ Pace

Spec == Init /\ [][Next]_vars

\* the interpreter keeps running crawl() until it returns or raises
FairSpec == Spec /\ WF_vars(Next)

----------------------------------------------------------------------------
(* What the log holds *)

IsGet(e)    == e.op = "get"
IsUpsert(e) == e.op = "upsert_page"
IsLinks(e)  == e.op = "insert_links"

Gets      == SelectSeq(log, IsGet)       \* calls of session.get in the loop
PageCalls == SelectSeq(log, IsUpsert)    \* PageRecords handed to the sink
LinkCalls == SelectSeq(log, IsLinks)     \* LinkEdge batches handed to the sink

AbsentRow == Row(None, None, None, None)

\* b is a itself or a subdomain of a: a, preceded by a label boundary
SameOrSubdomain(h, b) == h = b \/ EndsWith(h, <<".">> \o b)

----------------------------------------------------------------------------
(* Claims *)

\* C1: no URL is passed to session.get twice in one run.
NoDuplicateVisits ==
    \A i, j \in DOMAIN Gets : Gets[i].url = Gets[j].url => i = j

\* C1 witness: a URL that was fetched is at the head of the queue again, and
\* the loop goes on to dequeue it.
DuplicateQueued ==
    /\ pc = "loop"
    /\ LoopCondition
    /\ \E i \in DOMAIN Gets : Gets[i].url = urldefrag(Head(queue))

\* C2: visited, fetch attempts and PageRecords never exceed max_pages.
BudgetRespected ==
    /\ Cardinality(visited) <= max_pages
    /\ Len(Gets) <= max_pages
    /\ Len(PageCalls) <= max_pages

\* C2 witness: the loop ended on the budget with URLs still queued.
BudgetStopsCrawl ==
    /\ pc = "done"
    /\ queue # <<>>
    /\ max_pages > 0
    /\ Cardinality(visited) = max_pages
    /\ Len(Gets) = max_pages

\* C3: with include_subdomains off, every URL fetched or recorded is http(s)
\* on exactly the base host.
ScopeContained ==
    ~include_subdomains =>
        \A i \in DOMAIN log :
            (IsGet(log[i]) \/ IsUpsert(log[i])) =>
                /\ log[i].url.scheme \in {"http", "https"}
                /\ log[i].url.netloc = base_url.netloc

\* C3 witness: with include_subdomains off a discovered link was followed
\* and recorded.
ScopedCrawlWentOn ==
    /\ ~include_subdomains
    /\ Len(Gets) >= 2
    /\ Len(PageCalls) >= 2
    /\ pc = "done"

\* C4: with include_subdomains on, every URL fetched, queued or edged is on
\* the base host or on a subdomain of it.
SubdomainRule ==
    include_subdomains =>
        /\ \A i \in DOMAIN queue : SameOrSubdomain(queue[i].netloc, base_url.netloc)
        /\ \A i \in DOMAIN Gets : SameOrSubdomain(Gets[i].url.netloc, base_url.netloc)
        /\ \A i \in DOMAIN LinkCalls : \A t \in LinkCalls[i].to_urls :
               SameOrSubdomain(t.netloc, base_url.netloc)

\* C5: crawl() eventually leaves its loop in Done.
ReachesDone == <>(pc = "done")

\* crawl() always ends: it returns or an exception leaves it
CrawlEnds == <>(pc \in {"done", "raised"})

\* C6: a failing sink call does not let an exception leave crawl().
SinkFailureIsolated == pc # "raised"

\* C7: after a failed fetch exactly the all-absent record of the URL is
\* emitted, nothing is queued or edged, and the loop goes on.
GracefulTransportFailure ==
    [][pc = "failed" =>
         /\ log' = Append(log, [op |-> "upsert_page", url |-> url, row |-> AbsentRow])
         /\ queue' = queue
         /\ pc' = "loop"]_vars

\* C8: with max_pages = 1 and an eligible seed, one PageRecord (the seed's)
\* and no LinkEdge batch is handed to the sink.
BudgetOneNoEdges ==
    (max_pages = 1 /\ pc \in {"done", "raised"} /\ Gets # <<>>) =>
        /\ Len(PageCalls) = 1
        /\ PageCalls[1].url = base_url
        /\ LinkCalls = <<>>

\* URLs that allowed_url can be asked about
Candidates == BaseUrls \cup {urldefrag(urljoin(b, h)) : b \in BaseUrls, h \in Hrefs}

\* C9: a robots parser that never got a robots file allows every URL that
\* passes the scheme and host checks, so a run fetches its eligible seed as
\* it does without robots enforcement.
RobotsFailOpen ==
    (robot_parser # None /\ ~robot_parser[1].last_checked
        /\ max_pages > 0 /\ pc = "done") =>
        /\ \A u \in Candidates : allowed_url(u) = (SchemeAllowed(u) /\ HostAllowed(u))
        /\ SchemeAllowed(base_url) => Gets # <<>>

\* the content types that do not contain "text/html"
NotHtml(c) == c # None /\ c[1] \in {"", "text/plain"}

\* C10: a fetched page that is not HTML queues nothing, gets no LinkEdge, and
\* its PageRecord has status and content type but no title and no text.
NonHtmlGating ==
    [][/\ (pc = "get" /\ pc' = "upsert" /\ NotHtml(content_type')) =>
            /\ queue' = queue
            /\ links_to_store' = {}
       /\ (pc = "upsert" /\ NotHtml(content_type)) =>
            /\ log' = Append(log, [op |-> "upsert_page", url |-> url,
                                   row |-> Row(status_code, content_type, None, None)])
            /\ status_code # None
            /\ queue' = queue
            /\ pc' \in {"pace", "raised"}
       /\ (pc = "pace" /\ NotHtml(content_type)) =>
            /\ queue' = queue
            /\ LinkCalls' = LinkCalls]_vars

\* C10 witness: a page that is not HTML was recorded while links were waiting.
NonHtmlRecorded ==
    /\ pc = "pace"
    /\ NotHtml(content_type)
    /\ queue # <<>>
    /\ PageCalls # <<>>
    /\ PageCalls[Len(PageCalls)].url = url

\* C11: when the run has ended in Done, upsert_page was called exactly once
\* for each visited URL and for no other URL.
OneRecordPerVisited ==
    pc = "done" =>
        /\ \A u \in visited : Cardinality({i \in DOMAIN PageCalls : PageCalls[i].url = u}) = 1
        /\ \A i \in DOMAIN PageCalls : PageCalls[i].url \in visited

\* C11 witness: a run ended with a failed fetch and an answered fetch, each
\* recorded.
MixedRunRecorded ==
    /\ pc = "done"
    /\ Cardinality(visited) >= 2
    /\ \E i \in DOMAIN PageCalls : PageCalls[i].row = AbsentRow
    /\ \E i \in DOMAIN PageCalls : PageCalls[i].row # AbsentRow

\* the place of a URL's first enqueue
FirstEnqueue(u) == CHOOSE k \in DOMAIN enqueued : urldefrag(enqueued[k]) = u

PauseBetweenFetches ==
    delay # 0 =>
        \A i, j \in DOMAIN log :
            (i < j /\ IsGet(log[i]) /\ IsGet(log[j])) =>
                \E k \in (i + 1)..(j - 1) : log[k].op = "sleep"

\* what the code does keep of the pacing: a sleep follows every answered
\* fetch that is followed by another fetch
PauseAfterAnswered ==
    delay # 0 =>
        \A i, j \in DOMAIN log :
            (/\ i < j /\ IsGet(log[i]) /\ IsGet(log[j])
             /\ IsUpsert(log[i + 1]) /\ log[i + 1].row # AbsentRow) =>
                \E k \in (i + 1)..(j - 1) : log[k].op = "sleep"

\* C14: every sleep is followed by another session.get in the same run.
NoTrailingPause ==
    pc = "done" =>
        \A i \in DOMAIN log :
            log[i].op = "sleep" => \E j \in (i + 1)..Len(log) : IsGet(log[j])

\* with an empty queue the pace step logs no sleep (line 200)
NoPauseOnEmpty == [][(pc = "pace" /\ queue = <<>>) => log' = log]_vars

\* C15: dequeuing a URL that allowed_url rejects removes the queue head and
\* changes nothing else: no visited entry, no call, no sleep.
SilentDiscard ==
    [][(pc = "loop" /\ LoopCondition /\ ~allowed_url(urldefrag(Head(queue)))) =>
           /\ queue' = Tail(queue)
           /\ visited' = visited
           /\ log' = log
           /\ pages' = pages /\ links' = links
           /\ pc' = "loop"]_vars

\* C15 witness: an ineligible seed was dequeued and dropped.
SeedDiscarded ==
    /\ pc = "loop"
    /\ url = base_url
    /\ ~allowed_url(url)
    /\ max_pages > 0
    /\ queue = <<>> /\ visited = {} /\ log = <<>>

\* the URLs link extraction just appended to the queue
Appended == SubSeq(queue', Len(queue) + 1, Len(queue'))

VisitedMonotone ==
    [][/\ visited \subseteq visited'
       /\ Len(queue') > Len(queue) =>
              \A i \in DOMAIN Appended : Appended[i] \notin visited']_vars

\* C17 witness: link discovery appended URLs when visited held two pages.
LaterDiscovery ==
    /\ pc = "upsert"
    /\ Cardinality(visited) >= 2
    /\ links_to_store # {}

\* C18: a LinkEdge batch is never empty and directly follows the
\* upsert_page call of its own page.
RecordBeforeEdges ==
    \A i \in DOMAIN log :
        IsLinks(log[i]) =>
            /\ log[i].to_urls # {}
            /\ i > 1
            /\ IsUpsert(log[i - 1])
            /\ log[i - 1].url = log[i].from_url

\* C18 witness: one page handed over its record and links, the next page its
\* record and no links.
EdgesThenNone ==
    /\ pc = "pace"
    /\ Len(PageCalls) = 2
    /\ Len(LinkCalls) = 1
    /\ links_to_store = {}
    /\ IsUpsert(log[Len(log)])
    /\ content_type = Some("text/html")

\* C19: no LinkEdge leads from a page to itself, and a page's iteration
\* never appends the page to the queue.
NoSelfLoop ==
    /\ [](\A i \in DOMAIN LinkCalls : LinkCalls[i].from_url \notin LinkCalls[i].to_urls)
    /\ [][(pc = "get" /\ pc' = "upsert") =>
            \A i \in DOMAIN Appended : Appended[i] # url]_vars

\* C19 witness: the links of an HTML page other than the seed were handed
\* over.
InnerPageLinked ==
    /\ pc = "pace"
    /\ url # base_url
    /\ links_to_store # {}
    /\ LinkCalls # <<>>
    /\ LinkCalls[Len(LinkCalls)].from_url = url

\* C20: at the loop head there are as many session.get calls as visited
\* URLs.
FetchCountIsVisitedCount ==
    pc \in {"loop", "done"} => Len(Gets) = Cardinality(visited)

\* C20 witness: a run whose only dequeue was skipped ended with the budget
\* untouched: nothing visited, nothing fetched.
SkipCostsNothing ==
    /\ pc = "done"
    /\ max_pages > 0
    /\ url = base_url
    /\ Gets = <<>>
    /\ visited = {}

====
